---- MODULE Spec2Model ----
(***************************************************************************)
(* Verification model of the expense agent's data layer:                   *)
(*   - the expense table tools (add, update, delete) of src/tools, and     *)
(*   - the Gmail change tracker of src/gmail_listener.py.                  *)
(* Text is modelled as sequences of code points, so that lower(), strip(), *)
(* the sanitising re.sub and difflib's similarity ratio are computed, not  *)
(* assumed.  Dates are Google-Sheets serial day numbers; date text is a    *)
(* finite set of literals with the parse / format tables of strptime and   *)
(* strftime on them.                                                       *)
(***************************************************************************)
EXTENDS Integers, Sequences, FiniteSets, TLC

(***************************************************************************)
(* Bounds of the model.                                                    *)
(***************************************************************************)
MaxRows == 3
MaxCalls == 1
MaxNotifs == 3
MaxCursor == 3
MaxMsg == 3
MaxEntries == 2
\* processed_messages is cut at 500 by dropping 250; the model keeps the ratio
CacheCap == 2
EvictCount == 1
MatchRows == 6

(***************************************************************************)
(* Text helpers: str.lower, str.strip, re.sub(r'[<>\"\'=;]', '', s),       *)
(* "in" on strings, and Python's string order.                             *)
(***************************************************************************)
\* a local variable of the code: its value is computed once, then named
Bind(v, F(_)) == CHOOSE r \in { F(x) : x \in {v} } : TRUE

LowerChar(c) == IF c >= 65 /\ c <= 90 THEN c + 32 ELSE c

Lower(s) == [i \in 1..Len(s) |-> LowerChar(s[i])]

IsSpace(c) == c = 32

RECURSIVE LStrip(_)
LStrip(s) == IF s # <<>> /\ IsSpace(Head(s)) THEN LStrip(Tail(s)) ELSE s

RECURSIVE RStrip(_)
RStrip(s) ==
    IF s # <<>> /\ IsSpace(s[Len(s)]) THEN RStrip(SubSeq(s, 1, Len(s) - 1)) ELSE s

Strip(s) == RStrip(LStrip(s))

InjectionChars == {60, 62, 34, 39, 61, 59}

Sanitize(s) == Strip(SelectSeq(s, LAMBDA c : c \notin InjectionChars))

Contains(hay, needle) ==
    \E i \in 0..(Len(hay) - Len(needle)) :
        \A k \in 1..Len(needle) : hay[i + k] = needle[k]

RECURSIVE StrLess(_, _)
StrLess(x, y) ==
    IF y = <<>> THEN FALSE
    ELSE IF x = <<>> THEN TRUE
    ELSE IF Head(x) # Head(y) THEN Head(x) < Head(y)
    ELSE StrLess(Tail(x), Tail(y))

(***************************************************************************)
(* difflib.SequenceMatcher(None, a, b).ratio() for short strings (no junk, *)
(* no autojunk below 200 elements): the longest matching block, earliest   *)
(* in a then earliest in b, then the same to its left and to its right.    *)
(* Indices are 1-based and half-open: a[alo..ahi-1].                       *)
(***************************************************************************)
RECURSIVE CommonPrefix(_, _, _, _, _, _)
CommonPrefix(a, i, ahi, b, j, bhi) ==
    IF i < ahi /\ j < bhi /\ a[i] = b[j]
    THEN 1 + CommonPrefix(a, i + 1, ahi, b, j + 1, bhi)
    ELSE 0

find_longest_match(a, alo, ahi, b, blo, bhi) ==
    LET cand == { <<i, j>> \in (alo..(ahi - 1)) \X (blo..(bhi - 1)) : a[i] = b[j] }
        len(p) == CommonPrefix(a, p[1], ahi, b, p[2], bhi)
    IN  IF cand = {} THEN <<alo, blo, 0>>
        ELSE Bind(CHOOSE p \in cand :
                     \A q \in cand :
                        \/ len(p) > len(q)
                        \/ /\ len(p) = len(q)
                           /\ \/ p[1] < q[1]
                              \/ p[1] = q[1] /\ p[2] <= q[2],
                  LAMBDA best : <<best[1], best[2], len(best)>>)

RECURSIVE MatchingSize(_, _, _, _, _, _)
MatchingSize(a, alo, ahi, b, blo, bhi) ==
    Bind(find_longest_match(a, alo, ahi, b, blo, bhi), LAMBDA m :
        IF m[3] = 0 THEN 0
        ELSE m[3]
             + (IF alo < m[1] /\ blo < m[2]
                THEN MatchingSize(a, alo, m[1], b, blo, m[2]) ELSE 0)
             + (IF m[1] + m[3] < ahi /\ m[2] + m[3] < bhi
                THEN MatchingSize(a, m[1] + m[3], ahi, b, m[2] + m[3], bhi) ELSE 0))

\* ratio() as the fraction <<2*M, T>>; ratio() is 1.0 when both are empty
ratio(a, b) ==
    IF Len(a) + Len(b) = 0 THEN <<1, 1>>
    ELSE <<2 * MatchingSize(a, 1, Len(a) + 1, b, 1, Len(b) + 1), Len(a) + Len(b)>>

FracGE(p, q) == p[1] * q[2] >= q[1] * p[2]

FracGT(p, q) == p[1] * q[2] > q[1] * p[2]

(***************************************************************************)
(* difflib.get_close_matches(word, possibilities, n, cutoff): every        *)
(* possibility (duplicates kept) scoring >= cutoff, cut to the n largest   *)
(* (score, x) pairs; returned here as the set of names the callers build.  *)
(***************************************************************************)
get_close_matches(word, possibilities, n, cutoff) ==
    LET greater(score, i, j) ==   \* entry i sorts strictly before entry j
            \/ FracGT(score[i], score[j])
            \/ /\ score[i][1] * score[j][2] = score[j][1] * score[i][2]
               /\ StrLess(possibilities[j], possibilities[i])
    IN  Bind([i \in 1..Len(possibilities) |-> ratio(possibilities[i], word)],
             LAMBDA score :
        Bind({ i \in 1..Len(possibilities) : FracGE(score[i], cutoff) },
             LAMBDA scored :
        { possibilities[j] : j \in
            { j \in scored :
                Cardinality({ i \in scored : greater(score, i, j) }) < n } }))


(***************************************************************************)
(* Literals.  Names, notes, categories and field names are code-point      *)
(* sequences; the comment gives the text.                                  *)
(***************************************************************************)
Food == <<70, 111, 111, 100>>
HealthWellness == <<72, 101, 97, 108, 116, 104, 32, 38, 32, 87, 101, 108, 108, 110, 101, 115, 115>>
Snack == <<83, 110, 97, 99, 107>>
BillsUtilities == <<66, 105, 108, 108, 115, 32, 38, 32, 85, 116, 105, 108, 105, 116, 105, 101, 115>>
Entertainment == <<69, 110, 116, 101, 114, 116, 97, 105, 110, 109, 101, 110, 116>>
Transport == <<84, 114, 97, 110, 115, 112, 111, 114, 116>>
Education == <<69, 100, 117, 99, 97, 116, 105, 111, 110>>
Charity == <<67, 104, 97, 114, 105, 116, 121>>
Shopping == <<83, 104, 111, 112, 112, 105, 110, 103>>

\* tools/sheets_utils.py, used by add_transaction.py
VALID_CATEGORIES ==
    {Food, HealthWellness, Snack, BillsUtilities, Entertainment, Transport,
     Education, Charity, Shopping}

\* tools/update_transaction.py keeps its own copy
UPDATE_VALID_CATEGORIES ==
    {Food, HealthWellness, Snack, BillsUtilities, Entertainment, Transport,
     Education, Charity}

Cof == <<67, 111, 102>>                 \* "Cof"
CofS == <<67, 111, 102, 32, 83>>        \* "Cof S"
Tea == <<84, 101, 97>>                  \* "Tea"
NoText == <<>>                          \* ""

\* the amount cap of add_transaction.py and update_transaction.py
AmountCap == 100000000

\* float('nan'), and a cell holding the text "nan": no number compares with it
NaN == -1

\* Python's <= and > on floats: every comparison with NaN is False
PyLE(x, y) == x # NaN /\ y # NaN /\ x <= y

\* Python's > on floats; a cap test that also stops the cap itself
PyGE(x, y) == x # NaN /\ y # NaN /\ x >= y

PyGT(x, y) == x # NaN /\ y # NaN /\ x > y

(***************************************************************************)
(* Dates.  A calendar day is its Sheets serial (days since 1899-12-30);    *)
(* BadDate stands for the ValueError of a failed parse.                    *)
(***************************************************************************)
BadDate == -1

\* serial of 01/01/2020 and of 01/01/2031: the years 2020..2030 lie between
FirstDay2020 == 43831

FirstDay2031 == 47849

\* date.today() of add_transaction.py (11/06/2025)
Today == 45967

DateTexts == {"11/05/2025", "11/5/2025", "11/06/2025", "01/01/2019", "13/45/2025"}

\* datetime.strptime(s, "%m/%d/%Y"): %m and %d accept one or two digits
parse_date_mmddyyyy(s) ==
    CASE s = "11/05/2025" -> 45966
      [] s = "11/5/2025" -> 45966
      [] s = "11/06/2025" -> 45967
      [] s = "01/01/2019" -> 43466
      [] OTHER -> BadDate

\* dt.strftime("%m/%d/%Y"): always zero-padded
strftime(d) ==
    CASE d = 45966 -> "11/05/2025"
      [] d = 45967 -> "11/06/2025"
      [] d = 43466 -> "01/01/2019"
      [] OTHER -> "?"

YearInRange(d) == d >= FirstDay2020 /\ d < FirstDay2031

\* a Date cell: a serial number, or text the sheet did not turn into a date
SerialCell(d) == [k |-> "serial", n |-> d, t |-> ""]

TextCell(s) == [k |-> "text", n |-> 0, t |-> s]

\* sheets_utils.to_datetime(val).date(); none of the literals is ISO text
to_datetime(cell) ==
    IF cell.k = "serial" THEN cell.n
    ELSE IF cell.t = "" THEN BadDate
    ELSE parse_date_mmddyyyy(cell.t)

(***************************************************************************)
(* The remote table: the data rows under the header                        *)
(* Name | Amount | Category | Created | Date | Notes; sheet row r is       *)
(* table[r - 1].                                                           *)
(***************************************************************************)
VARIABLES table, op, args, pre, out, ncalls, inflight

ColName == <<"Name", "Amount", "Category", "Created", "Date", "Notes">>

MkRow(name, amount, category, created, date, notes) ==
    [Name |-> name, Amount |-> amount, Category |-> category,
     Created |-> created, Date |-> date, Notes |-> notes]

\* value_input_option="USER_ENTERED": text that reads as a date becomes a serial
UserEnteredDate(s) ==
    IF parse_date_mmddyyyy(s) # BadDate THEN SerialCell(parse_date_mmddyyyy(s))
    ELSE TextCell(s)

get_all_records(t) == t

append_rows(t, rows) == t \o rows

update_cell(t, r, c, v) == [t EXCEPT ![r - 1] = [@ EXCEPT ![ColName[c]] = v]]

\* gspread delete_rows(start, end): removes sheet rows start..end inclusive
RowsOf(indexed) == [i \in 1..Len(indexed) |-> indexed[i][2]]

\* a call that removes only the first row of the range
delete_first_row(t, start, end) ==
    RowsOf(SelectSeq([i \in 1..Len(t) |-> <<i + 1, t[i]>>],
                     LAMBDA p : p[1] # start))

delete_rows(t, start, end) ==
    RowsOf(SelectSeq([i \in 1..Len(t) |-> <<i + 1, t[i]>>],
                     LAMBDA p : p[1] < start \/ p[1] > end))

(***************************************************************************)
(* tools/delete_transaction.py                                             *)
(***************************************************************************)
\* lines 50-58: fuzzy (case-sensitive, top 10) united with substring matches
DeleteMatchedNames(records, name, cutoff) ==
    Bind(Strip(Lower(name)), LAMBDA name_lower :
    Bind([i \in 1..Len(records) |-> Strip(records[i].Name)], LAMBDA all_names :
        LET fuzzy_matches == get_close_matches(name, all_names, 10, cutoff)
            substring_matches ==
                { all_names[i] : i \in { j \in 1..Len(all_names) :
                                         Contains(Lower(all_names[j]), name_lower) } }
        IN  fuzzy_matches \cup substring_matches))

\* lines 72-92, one record: does the loop reach "rows_to_delete.append(i)"?
DeleteRowPasses(record, matched_names, date_str, category) ==
    /\ Strip(record.Name) \in matched_names
    /\ \/ date_str = ""
       \/ /\ to_datetime(record.Date) # BadDate
          /\ parse_date_mmddyyyy(date_str) # BadDate
          /\ to_datetime(record.Date) = parse_date_mmddyyyy(date_str)
    /\ \/ category = NoText
       \/ Strip(Lower(record.Category)) = Strip(Lower(category))

\* lines 69-102: the scan over enumerate(records, start=2)
RECURSIVE DeleteScan(_, _, _, _, _, _)
DeleteScan(records, i, matched_names, date_str, category, acc) ==
    IF i > Len(records) THEN acc
    ELSE Bind(IF DeleteRowPasses(records[i], matched_names, date_str, category)
              THEN [rows |-> Append(acc.rows, i + 1),
                    items |-> Append(acc.items,
                       [name |-> Strip(records[i].Name), amount |-> records[i].Amount,
                        category |-> records[i].Category, date |-> records[i].Date,
                        notes |-> records[i].Notes])]
              ELSE acc,
              LAMBDA next :
                  DeleteScan(records, i + 1, matched_names, date_str, category, next))

\* a grouping that makes a run of every row
GroupSingles(rest, start, end, ranges) ==
    [i \in 1..(Len(rest) + 1) |->
        IF i = 1 THEN <<start, start>> ELSE <<rest[i - 1], rest[i - 1]>>]

\* lines 132-141: group the sorted row numbers into (start, end) runs
RECURSIVE GroupRanges(_, _, _, _)
GroupRanges(rest, start, end, ranges) ==
    IF rest = <<>> THEN Append(ranges, <<start, end>>)
    ELSE IF Head(rest) = end + 1
         THEN GroupRanges(Tail(rest), start, Head(rest), ranges)
         ELSE GroupRanges(Tail(rest), Head(rest), Head(rest),
                          Append(ranges, <<start, end>>))

\* the runs left in ascending order
ReversedNot(s) == s

Reversed(s) == [i \in 1..Len(s) |-> s[Len(s) + 1 - i]]

\* lines 143-144: the range deletions, last run first; the call numbered
\* `fail` (if any) raises and ends the loop
RECURSIVE DeleteLoop(_, _, _, _)
DeleteLoop(t, todo, calls, fail) ==
    IF todo = <<>> THEN [table |-> t, calls |-> calls, raised |-> FALSE]
    ELSE IF Len(calls) + 1 = fail
         THEN [table |-> t,
               calls |-> Append(calls, <<"delete_rows", Head(todo)[1], Head(todo)[2]>>),
               raised |-> TRUE]
         ELSE DeleteLoop(delete_rows(t, Head(todo)[1], Head(todo)[2]), Tail(todo),
                         Append(calls, <<"delete_rows", Head(todo)[1], Head(todo)[2]>>),
                         fail)

\* a gate that lets two matches through
DeleteGateLoose(n, delete_all_matches) == n > 2 /\ ~delete_all_matches

\* a gate that also stops a single match
DeleteGateStrict(n, delete_all_matches) == n >= 1 /\ ~delete_all_matches

\* lines 120-121: the safety check stops more than one match without the flag
DeleteGate(n, delete_all_matches) == n > 1 /\ ~delete_all_matches

DeleteResult(t, status, msg, count, items, found, calls) ==
    [table |-> t, status |-> status, msg |-> msg, deleted_count |-> count,
     deleted_items |-> items, matches_found |-> found, calls |-> calls,
     raised |-> FALSE]

\* delete_transaction_tool; `fail` numbers the store call that raises (0: none)
delete_transaction_tool(t, name, date_str, category, fuzzy_threshold, delete_all_matches, fail) ==
    LET records == get_all_records(t)
        read == << <<"get_all_records">> >>
    IN  IF fail = 1
        THEN DeleteResult(t, "error", "raw", 0, <<>>, 0, read)
        ELSE IF records = <<>>
        THEN DeleteResult(t, "error", "no_data", 0, <<>>, 0, read)
        ELSE
        Bind(DeleteMatchedNames(records, name, fuzzy_threshold), LAMBDA matched_names :
        IF matched_names = {}
        THEN DeleteResult(t, "not_found", "no_name", 0, <<>>, 0, read)
        ELSE
        Bind(DeleteScan(records, 1, matched_names, date_str, category,
                        [rows |-> <<>>, items |-> <<>>]), LAMBDA scan :
        IF scan.rows = <<>>
        THEN DeleteResult(t, "not_found", "no_row", 0, <<>>, 0, read)
        ELSE IF DeleteGate(Len(scan.rows), delete_all_matches)
        THEN DeleteResult(t, "multiple_matches", "gate", 0, scan.items,
                          Len(scan.rows), read)
        ELSE
        Bind(GroupRanges(Tail(scan.rows), Head(scan.rows), Head(scan.rows), <<>>),
             LAMBDA ranges :
        Bind(DeleteLoop(t, Reversed(ranges), read, fail), LAMBDA loop :
        IF loop.raised
        THEN DeleteResult(loop.table, "error", "raw", 0, <<>>, 0, loop.calls)
        ELSE DeleteResult(loop.table, "success", "deleted", Len(scan.rows),
                          scan.items, 0, loop.calls)))))

(***************************************************************************)
(* tools/update_transaction.py                                             *)
(***************************************************************************)
UpperChar(c) == IF c >= 97 /\ c <= 122 THEN c - 32 ELSE c

\* str.capitalize(): first character upper-cased, the rest lower-cased
Capitalize(s) ==
    [i \in 1..Len(s) |-> IF i = 1 THEN UpperChar(s[i]) ELSE LowerChar(s[i])]

\* "Name", "Amount", "Category", "Created", "Date", "Notes"
valid_fields ==
    << <<78, 97, 109, 101>>, <<65, 109, 111, 117, 110, 116>>,
       <<67, 97, 116, 101, 103, 111, 114, 121>>, <<67, 114, 101, 97, 116, 101, 100>>,
       <<68, 97, 116, 101>>, <<78, 111, 116, 101, 115>> >>

FieldIndex(f) == CHOOSE i \in 1..Len(valid_fields) : valid_fields[i] = f

MaxNameLen == 100

MaxNotesLen == 500

\* float(text) on the amount literals; NotFloat stands for the ValueError
NotFloat == -2

float(text) ==
    CASE text = "5" -> 5
      [] text = "0" -> 0
      [] text = "-3" -> -3
      [] text = "100000000" -> 100000000
      [] text = "100000001" -> 100000001
      [] text = "nan" -> NaN
      [] OTHER -> NotFloat

\* lines 52-89: the per-field check of new_value; `cell` is what update_cell
\* leaves in the sheet for the value the check lets through (the amount text
\* as the number it reads as, a date as its serial)
UpdateValidate(field_cap, new_value) ==
    LET good(v) == [ok |-> TRUE, cell |-> v]
        bad == [ok |-> FALSE, cell |-> 0]
    IN  CASE field_cap = valid_fields[2] ->
               IF float(new_value) = NotFloat THEN bad
               ELSE IF PyLE(float(new_value), 0) THEN bad
               ELSE IF PyGT(float(new_value), AmountCap) THEN bad
               ELSE good(float(new_value))
          [] field_cap = valid_fields[3] ->
               IF Strip(new_value) \notin UPDATE_VALID_CATEGORIES THEN bad
               ELSE good(Strip(new_value))
          [] field_cap = valid_fields[1] ->
               IF Len(new_value) > MaxNameLen THEN bad
               ELSE IF Sanitize(new_value) = <<>> THEN bad
               ELSE good(Sanitize(new_value))
          [] field_cap = valid_fields[6] ->
               IF Len(new_value) > MaxNotesLen THEN bad
               ELSE good(Sanitize(new_value))
          [] field_cap = valid_fields[5] ->
               IF parse_date_mmddyyyy(new_value) = BadDate THEN bad
               ELSE IF ~YearInRange(parse_date_mmddyyyy(new_value)) THEN bad
               ELSE good(UserEnteredDate(strftime(parse_date_mmddyyyy(new_value))))
          [] OTHER -> good(new_value)

\* the close names alone, without the names that hold the query
UpdateMatchedClose(records, name, cutoff) ==
    get_close_matches(name, [i \in 1..Len(records) |-> Strip(records[i].Name)],
                      5, cutoff)

\* lines 99-103: fuzzy (top 5) united with substring matches
UpdateMatchedNames(records, name, cutoff) ==
    Bind(Strip(Lower(name)), LAMBDA name_lower :
    Bind([i \in 1..Len(records) |-> Strip(records[i].Name)], LAMBDA names :
        LET fuzzy_matches == get_close_matches(name, names, 5, cutoff)
            substring_matches ==
                { names[i] : i \in { j \in 1..Len(names) :
                                     Contains(Lower(names[j]), name_lower) } }
        IN  fuzzy_matches \cup substring_matches))

\* a date test that takes any row holding a serial
UpdateDateMatchAny(cell, date_str) ==
    IF cell.k = "serial" THEN TRUE
    ELSE \/ cell.t = date_str
         \/ /\ parse_date_mmddyyyy(cell.t) # BadDate
            /\ strftime(parse_date_mmddyyyy(cell.t)) = date_str

\* lines 115-132: the date test of one record, on text
UpdateDateMatch(cell, date_str) ==
    IF cell.k = "serial" THEN strftime(cell.n) = date_str
    ELSE \/ cell.t = date_str
         \/ /\ parse_date_mmddyyyy(cell.t) # BadDate
            /\ strftime(parse_date_mmddyyyy(cell.t)) = date_str

\* lines 108-136: one update_cell call per qualifying row, in row order; the
\* store call numbered `fail` (if any) raises out of the loop
RECURSIVE UpdateLoop(_, _, _, _, _, _, _, _, _)
UpdateLoop(records, i, matches, date_str, col, cell, t, calls, fail) ==
    IF i > Len(records)
    THEN [table |-> t, calls |-> calls, raised |-> FALSE]
    ELSE IF /\ Strip(records[i].Name) \in matches
            /\ (date_str = "" \/ UpdateDateMatch(records[i].Date, date_str))
    THEN IF Len(calls) + 1 = fail
         THEN [table |-> t, calls |-> Append(calls, <<"update_cell", i + 1, col>>),
               raised |-> TRUE]
         ELSE UpdateLoop(records, i + 1, matches, date_str, col, cell,
                         update_cell(t, i + 1, col, cell),
                         Append(calls, <<"update_cell", i + 1, col>>), fail)
    ELSE UpdateLoop(records, i + 1, matches, date_str, col, cell, t, calls, fail)

UpdateResult(t, status, msg, rows, calls, raised) ==
    [table |-> t, status |-> status, msg |-> msg, updated_rows |-> rows,
     calls |-> calls, raised |-> raised]

\* update_transaction_tool; nothing catches a store call that raises, so the
\* exception leaves the tool (status "exception")
update_transaction_tool(t, name, field, new_value, date_str, fuzzy_threshold, fail) ==
    LET records == get_all_records(t)
        read == << <<"get_all_records">> >>
    IN  Bind(Capitalize(field), LAMBDA field_cap :
        IF \A i \in 1..Len(valid_fields) : valid_fields[i] # field_cap
        THEN UpdateResult(t, "error", "invalid_field", 0, <<>>, FALSE)
        ELSE
        Bind(UpdateValidate(field_cap, new_value), LAMBDA checked :
        IF ~checked.ok
        THEN UpdateResult(t, "error", "invalid_value", 0, <<>>, FALSE)
        ELSE IF name = <<>> \/ Len(name) > MaxNameLen
        THEN UpdateResult(t, "error", "invalid_name", 0, <<>>, FALSE)
        ELSE IF fail = 1
        THEN UpdateResult(t, "exception", "raw", 0, read, TRUE)
        ELSE
        Bind(UpdateMatchedNames(records, name, fuzzy_threshold), LAMBDA matches :
        IF matches = {}
        THEN UpdateResult(t, "not_found", "no_name", 0, read, FALSE)
        ELSE
        Bind(UpdateLoop(records, 1, matches, date_str, FieldIndex(field_cap),
                        checked.cell, t, read, fail), LAMBDA loop :
        Bind(Len(loop.calls) - 1, LAMBDA updated_rows :
        IF loop.raised
        THEN UpdateResult(loop.table, "exception", "raw", updated_rows - 1,
                          loop.calls, TRUE)
        ELSE IF updated_rows = 0
        THEN UpdateResult(t, "not_found", "no_date", 0, read, FALSE)
        ELSE UpdateResult(loop.table, "success", "updated", updated_rows,
                          loop.calls, FALSE))))))

(***************************************************************************)
(* tools/add_transaction.py                                                *)
(***************************************************************************)
MaxBatch == 50

\* datetime.now().strftime("%Y-%m-%d %H:%M:%S")
created_at == "now"

\* a JSON null where text is expected (json.loads gives None)
JsonNull == <<-1>>

\* lines 29-82 (and 145-192 for a batch item): the first failing check, or
\* the row to append; date None or "" means today.  len(notes) on None is a
\* TypeError: `raised`
AddValidate(name, amount, category, date_str, notes) ==
    LET bad(m) == [ok |-> FALSE, msg |-> m, raised |-> m = "type_error",
                   row |-> MkRow(<<>>, 0, <<>>, "", TextCell(""), <<>>)]
        day == parse_date_mmddyyyy(date_str)
    IN  IF name = <<>> THEN bad("name_required")
        ELSE IF Len(name) > MaxNameLen THEN bad("name_long")
        ELSE IF Sanitize(name) = <<>> THEN bad("name_invalid")
        ELSE IF PyLE(amount, 0) THEN bad("amount_positive")
        ELSE IF PyGT(amount, AmountCap) THEN bad("amount_cap")
        ELSE IF Strip(category) \notin VALID_CATEGORIES THEN bad("category")
        ELSE IF date_str # "" /\ day = BadDate THEN bad("date_format")
        ELSE IF date_str # "" /\ ~YearInRange(day) THEN bad("date_range")
        ELSE IF notes = JsonNull THEN bad("type_error")
        ELSE IF Len(notes) > MaxNotesLen THEN bad("notes_long")
        ELSE [ok |-> TRUE, msg |-> "", raised |-> FALSE,
              row |-> MkRow(Sanitize(name), amount, Strip(category), created_at,
                            UserEnteredDate(IF date_str = "" THEN strftime(Today)
                                            ELSE strftime(day)),
                            Sanitize(notes))]

\* a returned dict with the keys status and message only (the count fields
\* are then placeholders), the table left behind and the store calls made
AddResult(t, status, msg, added, errors, calls) ==
    [table |-> t, status |-> status, msg |-> msg, added_count |-> added,
     error_count |-> Len(errors), errors |-> errors, calls |-> calls,
     raised |-> FALSE, keys |-> {"status", "message"}]

\* a dict that has lost its counts and its error list
PlainResult(t, status, msg, added, errors, calls) ==
    [table |-> t, status |-> status, msg |-> msg, added_count |-> 0,
     error_count |-> 0, errors |-> <<>>, calls |-> calls,
     raised |-> FALSE, keys |-> {"status", "message"}]

\* lines 197-203 and 211-217: the dicts that also carry the counts and the
\* per-index error list
CountedResult(t, status, msg, added, errors, calls) ==
    [AddResult(t, status, msg, added, errors, calls) EXCEPT
        !.keys = {"status", "message", "added_count", "error_count", "errors"}]

\* add_transaction_tool; the whole body is inside try/except
add_transaction_tool(t, name, amount, category, date_str, notes, fail) ==
    LET call == << <<"append_row", 1>> >>
    IN  Bind(AddValidate(name, amount, category, date_str, notes), LAMBDA v :
        IF v.raised THEN AddResult(t, "error", "generic", 0, <<>>, <<>>)
        ELSE IF ~v.ok THEN AddResult(t, "error", v.msg, 0, <<>>, <<>>)
        ELSE IF fail = 1 THEN AddResult(t, "error", "generic", 0, <<>>, call)
        ELSE AddResult(append_rows(t, <<v.row>>), "success", "added", 1, <<>>, call))

\* lines 134-194: every item is checked on its own; idx counts from 0.  The
\* loop is outside any try: a TypeError of a check ends it.  `checked` holds
\* the outcome of each item, `rows` and `errors` what the loop collects
AddScan(transactions) ==
    Bind([i \in 1..Len(transactions) |->
             AddValidate(transactions[i].name, transactions[i].amount,
                         transactions[i].category, transactions[i].date_str,
                         transactions[i].notes)],
         LAMBDA checked :
    Bind(SelectSeq([i \in 1..Len(transactions) |-> i], LAMBDA i : checked[i].ok),
         LAMBDA valid :
    Bind(SelectSeq([i \in 1..Len(transactions) |-> i], LAMBDA i : ~checked[i].ok),
         LAMBDA invalid :
        [raised |-> \E i \in 1..Len(transactions) : checked[i].raised,
         rows |-> [k \in 1..Len(valid) |-> checked[valid[k]].row],
         errors |-> [k \in 1..Len(invalid) |->
                       [index |-> invalid[k] - 1,
                        message |-> checked[invalid[k]].msg]]])))

\* add_transactions_tool; json is "malformed", "not_list" or "list"
add_transactions_tool(t, json, transactions, fail) ==
    IF json = "malformed"
    THEN AddResult(t, "error", "json", 0, <<>>, <<>>)
    ELSE IF json # "list" \/ transactions = <<>>
    THEN AddResult(t, "error", "empty", 0, <<>>, <<>>)
    ELSE IF Len(transactions) > MaxBatch
    THEN AddResult(t, "error", "batch_cap", 0, <<>>, <<>>)
    ELSE
    Bind(AddScan(transactions), LAMBDA scan :
    LET call == << <<"append_rows", Len(scan.rows)>> >>
    IN  IF scan.raised
        THEN [AddResult(t, "exception", "type_error", 0, <<>>, <<>>)
                 EXCEPT !.raised = TRUE]
        ELSE IF scan.rows = <<>>
        THEN CountedResult(t, "error", "none_valid", 0, scan.errors, <<>>)
        ELSE IF fail = 1
        THEN AddResult(t, "error", "generic", 0, <<>>, call)
        ELSE CountedResult(append_rows(t, scan.rows), "success", "added",
                           Len(scan.rows), scan.errors, call))

(***************************************************************************)
(* tools/check_data_exists.py (find) and tools/analyze_expenses.py         *)
(* (analyze).  Both read the sheet with UNFORMATTED_VALUE: a date cell is   *)
(* its serial number, or the text the sheet kept.                          *)
(***************************************************************************)
_parse_date_mmddyyyy(date_str) == parse_date_mmddyyyy(date_str)

\* check_data_exists.py lines 23-46, a copy of sheets_utils.to_datetime
_to_datetime(cell) ==
    IF cell.k = "serial" THEN cell.n
    ELSE IF cell.t = "" THEN BadDate
    ELSE _parse_date_mmddyyyy(cell.t)

\* int(text) on the day-count literals; NotInt stands for the ValueError
NotInt == -1000

int(text) ==
    CASE text = "0" -> 0
      [] text = "1" -> 1
      [] text = "2" -> 2
      [] OTHER -> NotInt

\* the rows the date parse keeps (safe_to_dt / safe_date, then the drop of NaT)
ParsedRows(records) == SelectSeq(records, LAMBDA r : _to_datetime(r.Date) # BadDate)

\* a row as details reports it: the date in display form
Rendered(row) == [row EXCEPT !.Date = strftime(_to_datetime(row.Date))]

\* str.split(","): the pieces between the commas (code point 44)
RECURSIVE Split(_, _)
Split(s, piece) ==
    IF s = <<>> THEN <<piece>>
    ELSE IF Head(s) = 44 THEN <<piece>> \o Split(Tail(s), <<>>)
    ELSE Split(Tail(s), Append(piece, Head(s)))

\* Series.unique().tolist(): first occurrences, in order
RECURSIVE Unique(_, _)
Unique(s, seen) ==
    IF s = <<>> THEN seen
    ELSE IF \E i \in 1..Len(seen) : seen[i] = Head(s) THEN Unique(Tail(s), seen)
    ELSE Unique(Tail(s), Append(seen, Head(s)))

\* sorted(set(...)) of strings
RECURSIVE Sorted(_)
Sorted(S) ==
    IF S = {} THEN <<>>
    ELSE Bind(CHOOSE x \in S : \A y \in S \ {x} : StrLess(x, y),
              LAMBDA least : <<least>> \o Sorted(S \ {least}))

\* no date filter, a single day, or an inclusive range
NoDates == [kind |-> "none", lo |-> 0, hi |-> 0]

OneDay(d) == [kind |-> "single", lo |-> d, hi |-> d]

DayRange(lo, hi) == [kind |-> "range", lo |-> lo, hi |-> hi]

\* lines 156-178: days_ago, else date, else start and end; what does not
\* parse leaves no filter
FindSelector(date, start_date, end_date, days_ago) ==
    IF days_ago # ""
    THEN IF int(days_ago) = NotInt THEN NoDates
         ELSE DayRange(Today - int(days_ago), Today)
    ELSE IF date # ""
    THEN IF _parse_date_mmddyyyy(date) = BadDate THEN NoDates
         ELSE OneDay(_parse_date_mmddyyyy(date))
    ELSE IF start_date # "" /\ end_date # ""
    THEN IF _parse_date_mmddyyyy(start_date) = BadDate
              \/ _parse_date_mmddyyyy(end_date) = BadDate
         THEN NoDates
         ELSE DayRange(_parse_date_mmddyyyy(start_date),
                       _parse_date_mmddyyyy(end_date))
    ELSE NoDates

\* a mask that has lost its upper end
FindDateMaskFrom(row, sel) ==
    sel.kind = "none" \/ _to_datetime(row.Date) >= sel.lo

\* lines 181-187: the mask of one row
FindDateMask(row, sel) ==
    sel.kind = "none"
    \/ (_to_datetime(row.Date) >= sel.lo /\ _to_datetime(row.Date) <= sel.hi)

\* lines 231-243: the names the comma-separated alternatives select among
\* the names present
FindMatchedNames(all_names, names_to_check, cutoff) ==
    UNION { get_close_matches(names_to_check[k], all_names, 5, cutoff)
            \cup { all_names[i] : i \in { j \in 1..Len(all_names) :
                      Contains(Lower(all_names[j]), Lower(names_to_check[k])) } }
            : k \in 1..Len(names_to_check) }

FindResult(t, details, msg, calls, raised) ==
    [table |-> t, status |-> "no_status", exists |-> Len(details) > 0,
     match_count |-> Len(details),
     matches |-> Sorted({ Strip(details[i].Name) : i \in
                            { j \in 1..Len(details) : details[j].Name # <<>> } }),
     details |-> details, msg |-> msg, calls |-> calls, raised |-> raised]

\* check_data_exists_tool; nothing catches a read that raises
check_data_exists_tool(t, name, category, date, start_date, end_date, days_ago, fuzzy_threshold, fail) ==
    LET records == get_all_records(t)
        read == << <<"get_all_records">> >>
        none(m) == FindResult(t, <<>>, m, read, FALSE)
    IN  IF fail = 1
        THEN [FindResult(t, <<>>, "raw", read, TRUE) EXCEPT !.status = "exception"]
        ELSE IF records = <<>> THEN none("no_records")
        ELSE
        Bind(ParsedRows(records), LAMBDA parsed :
        IF parsed = <<>> THEN none("no_parseable_date")
        ELSE
        Bind(FindSelector(date, start_date, end_date, days_ago), LAMBDA sel :
        Bind(SelectSeq(parsed, LAMBDA r : FindDateMask(r, sel)), LAMBDA dated :
        IF dated = <<>> THEN none("")
        ELSE
        Bind(IF Strip(category) = <<>> THEN dated
             ELSE SelectSeq(dated, LAMBDA r :
                     Lower(Strip(r.Category)) = Lower(Strip(category))),
             LAMBDA incat :
        IF incat = <<>> THEN none("")
        ELSE
        Bind(Unique([i \in 1..Len(incat) |-> Strip(incat[i].Name)], <<>>),
             LAMBDA all_names :
        Bind(IF Strip(name) = <<>> THEN <<>>
             ELSE SelectSeq([i \in 1..Len(Split(name, <<>>)) |->
                                Strip(Split(name, <<>>)[i])],
                            LAMBDA n : n # <<>>),
             LAMBDA names_to_check :
        Bind(IF names_to_check = <<>> THEN incat
             ELSE Bind(FindMatchedNames(all_names, names_to_check, fuzzy_threshold),
                       LAMBDA matched_name_set :
                           SelectSeq(incat, LAMBDA r :
                               Strip(r.Name) \in matched_name_set)),
             LAMBDA named :
        FindResult(t, [i \in 1..Len(named) |-> Rendered(named[i])], "",
                   read, FALSE))))))))

\* "sum", "count", "average"
MetricSum == <<115, 117, 109>>

MetricCount == <<99, 111, 117, 110, 116>>

MetricAverage == <<97, 118, 101, 114, 97, 103, 101>>

RECURSIVE SumAmounts(_)
SumAmounts(rows) ==
    IF rows = <<>> THEN 0 ELSE Head(rows).Amount + SumAmounts(Tail(rows))

\* the dict of analyze: value is the fraction <<numerator, denominator>>
AnalyzeResult(t, status, exists, value, details, msg, calls, raised) ==
    [table |-> t, status |-> status, exists |-> exists, value |-> value,
     row_count |-> Len(details), details |-> details, msg |-> msg,
     calls |-> calls, raised |-> raised]

\* a last-N-days filter that keeps every row
AnalyzeDaysAll(rows, days) == rows

\* lines 118-125: the last-N-days filter; a count that is no integer is passed over
AnalyzeDays(rows, days) ==
    IF days = "" \/ int(days) = NotInt THEN rows
    ELSE SelectSeq(rows, LAMBDA r : _to_datetime(r.Date) >= Today - int(days))

\* lines 127-134: the range filter, applied whenever both ends are given
AnalyzeRange(rows, start_date, end_date) ==
    IF start_date = "" \/ end_date = "" THEN rows
    ELSE IF _parse_date_mmddyyyy(start_date) = BadDate
            \/ _parse_date_mmddyyyy(end_date) = BadDate
    THEN rows
    ELSE SelectSeq(rows, LAMBDA r :
            /\ _to_datetime(r.Date) >= _parse_date_mmddyyyy(start_date)
            /\ _to_datetime(r.Date) <= _parse_date_mmddyyyy(end_date))

\* analyze_expenses_tool; nothing catches a read that raises, nor the
\* KeyError of df["Date"] on a frame built from no records
analyze_expenses_tool(t, metric, category, name, start_date, end_date, days, fail) ==
    LET records == get_all_records(t)
        read == << <<"get_all_records">> >>
    IN  Bind(Strip(Lower(metric)), LAMBDA m :
        IF m \notin {MetricSum, MetricCount, MetricAverage}
        THEN AnalyzeResult(t, "no_status", FALSE, <<0, 1>>, <<>>, "unsupported",
                           <<>>, FALSE)
        ELSE IF fail = 1
        THEN AnalyzeResult(t, "exception", FALSE, <<0, 1>>, <<>>, "raw", read, TRUE)
        ELSE IF records = <<>>
        THEN AnalyzeResult(t, "exception", FALSE, <<0, 1>>, <<>>, "KeyError", read,
                           TRUE)
        ELSE
        Bind(AnalyzeDays(ParsedRows(records), days), LAMBDA recent :
        Bind(AnalyzeRange(recent, start_date, end_date), LAMBDA dated :
        Bind(IF Strip(category) = <<>> THEN dated
             ELSE SelectSeq(dated, LAMBDA r :
                     Lower(Strip(r.Category)) = Strip(Lower(category))),
             LAMBDA incat :
        Bind(IF Strip(name) = <<>> THEN incat
             ELSE SelectSeq(incat, LAMBDA r :
                     Contains(Lower(r.Name), Strip(Lower(name)))),
             LAMBDA df :
        IF df = <<>>
        THEN AnalyzeResult(t, "no_status", FALSE, <<0, 1>>, <<>>, "", read, FALSE)
        ELSE AnalyzeResult(t, "no_status", TRUE,
                 CASE m = MetricSum -> <<SumAmounts(df), 1>>
                   [] m = MetricCount -> <<Len(df), 1>>
                   [] OTHER -> <<SumAmounts(df), Len(df)>>,
                 [i \in 1..Len(df) |-> Rendered(df[i])], "", read, FALSE))))))

(***************************************************************************)
(* gmail_listener.py: the change tracker.  One task per accepted push;     *)
(* a task runs without interruption up to its next await.                  *)
(***************************************************************************)
VARIABLES PAYMENT_LABEL_ID, last_history_id, processed_messages, tasks,
          emitted, evicted, npush, http, request

\* last_history_id = None
None == 0

Cursors == 1..MaxCursor

MsgIds == 1..MaxMsg

\* one messagesAdded entry of a history record: the message id and whether
\* its labelIds hold the PaymentNotifications label
Entries == [id : MsgIds, labeled : BOOLEAN]

\* a history.list answer: the entries in enumeration order, a message once
HistoryAnswers ==
    { h \in UNION { [1..k -> Entries] : k \in 0..MaxEntries } :
        \A i, j \in 1..Len(h) : i # j => h[i].id # h[j].id }

IdleTask ==
    [pc |-> "unused", history_id |-> None, history_records |-> <<>>,
     todo |-> <<>>, call |-> "none"]

\* no push request yet
NoRequest == [token_ok |-> TRUE, decodable |-> FALSE]

\* a token test that lets every request in
TokenNotChecked(token_ok) == FALSE

\* lines 134-138: the request is refused when a token is configured and the
\* header differs from it
TokenRejected(token_ok) == ~token_ok

\* lines 134-156: 403 on a token mismatch, otherwise 204, with the task
\* scheduled only when the payload decodes; `request` keeps what the last
\* request was
pubsub_push(history_id, token_ok, decodable) ==
    /\ npush < MaxNotifs
    /\ npush' = npush + 1
    /\ request' = [token_ok |-> token_ok, decodable |-> decodable]
    /\ IF TokenRejected(token_ok)
       THEN http' = 403 /\ tasks' = tasks
       ELSE /\ http' = 204
            /\ tasks' = IF decodable
                        THEN [tasks EXCEPT ![npush + 1] =
                                [IdleTask EXCEPT !.pc = "scheduled",
                                                 !.history_id = history_id]]
                        ELSE tasks
    /\ UNCHANGED <<PAYMENT_LABEL_ID, last_history_id, processed_messages,
                   emitted, evicted>>

\* a membership test that never finds the message
NeverProcessed(id, seen) == FALSE

\* lines 184 and 236: is the message already processed?
AlreadyProcessed(id, seen) == id \in seen

\* a cursor that is kept only when the mailbox lookup returns
BootCursorLost(history_id, ok) == IF ok THEN history_id ELSE None

\* line 168: the cursor is stored before the lookup is tried
BootCursor(history_id, ok) == history_id

\* lines 166-193: the first notification of the process; `answer` is the id
\* of the newest qualifying message, 0 for an empty list, -1 for a failed
\* call (lines 190-191 log it)
Bootstrap(k, answer) ==
    /\ last_history_id' = BootCursor(tasks[k].history_id, answer >= 0)
    /\ IF answer > 0 /\ ~AlreadyProcessed(answer, processed_messages)
       THEN /\ processed_messages' = processed_messages \cup {answer}
            /\ emitted' = Append(emitted, [task |-> k, id |-> answer])
            /\ tasks' = [tasks EXCEPT ![k].pc = "await_boot", ![k].call = "list"]
       ELSE /\ tasks' = [tasks EXCEPT ![k].pc = "done",
                                      ![k].call = IF answer < 0 THEN "list_failed"
                                                  ELSE "list"]
            /\ UNCHANGED <<processed_messages, emitted>>
    /\ UNCHANGED evicted

\* a test that lets the held cursor itself through
IsStaleStrict(history_id, last) == history_id < last

\* line 197: int(history_id) <= int(last_history_id)
IsStale(history_id, last) == history_id <= last

\* lines 230-237: the entries the loop passes over before the next new one
RECURSIVE SkipSeen(_, _, _)
SkipSeen(todo, label, seen) ==
    IF todo = <<>> THEN todo
    ELSE IF (label /\ ~Head(todo).labeled) \/ AlreadyProcessed(Head(todo).id, seen)
         THEN SkipSeen(Tail(todo), label, seen)
         ELSE todo

\* a test that lets the cache grow one past the cap
OverCapLate(n) == n > CacheCap + 1

\* line 245: len(processed_messages) > 500
OverCap(n) == n > CacheCap

\* lines 224-251: run the loop of task k over `todo`, the entries of
\* history_records not yet visited, up to its next await: mark the message,
\* cut the cache when it has grown past the cap (any EvictCount members may
\* go), hand the message on and wait
RunLoop(k, history_records, todo, call) ==
    LET go == SkipSeen(todo, PAYMENT_LABEL_ID, processed_messages)
        added == processed_messages \cup {Head(go).id}
    IN  IF go = <<>>
        THEN /\ tasks' = [tasks EXCEPT ![k].pc = "done", ![k].todo = <<>>,
                                       ![k].history_records = <<>>,
                                       ![k].call = call]
             /\ UNCHANGED <<processed_messages, emitted, evicted>>
        ELSE /\ IF OverCap(Cardinality(added))
                THEN /\ \E old \in SUBSET added :
                          /\ Cardinality(old) = EvictCount
                          /\ processed_messages' = added \ old
                     /\ evicted' = TRUE
                ELSE /\ processed_messages' = added
                     /\ UNCHANGED evicted
             /\ emitted' = Append(emitted, [task |-> k, id |-> Head(go).id])
             /\ tasks' = [tasks EXCEPT ![k].pc = "await_loop",
                                       ![k].history_records = history_records,
                                       ![k].todo = Tail(go), ![k].call = call]

\* a handler that leaves the cursor where it was
CursorKept(history_id, last) == last

\* lines 253-255: the handler of the try block stores the task's own cursor
CursorOnError(history_id, last) == history_id

\* an advance that does not happen
CursorNotAdvanced(history_id, last) == last

\* line 210: the advance, right after history.list has returned; the call
\* of lines 204-209 is synchronous, no other task runs before the advance
CursorOnReturn(history_id, last) == history_id

\* process_notification from its entry to its first await or return
\*   boot: the messages.list answer of the bootstrap path
\*   ok, answer: whether history.list returns, and what
process_notification(k, boot, ok, answer) ==
    /\ tasks[k].pc = "scheduled"
    /\ UNCHANGED <<PAYMENT_LABEL_ID, npush, http, request>>
    /\ IF last_history_id = None
       THEN Bootstrap(k, boot)
       ELSE IF IsStale(tasks[k].history_id, last_history_id)
       THEN /\ tasks' = [tasks EXCEPT ![k].pc = "done"]
            /\ UNCHANGED <<last_history_id, processed_messages, emitted, evicted>>
       ELSE IF ~ok
       THEN \* lines 253-255: the call raised
            /\ last_history_id' = CursorOnError(tasks[k].history_id, last_history_id)
            /\ tasks' = [tasks EXCEPT ![k].pc = "done", ![k].call = "history_failed"]
            /\ UNCHANGED <<processed_messages, emitted, evicted>>
       ELSE /\ last_history_id' = CursorOnReturn(tasks[k].history_id, last_history_id)
            /\ RunLoop(k, answer, answer, "history")

\* the await of process_payment_email returns (it catches its own errors)
\* and the task runs on.  `raised`: reading the next entry raises (line 228,
\* an entry without its message id), which lands in the handler of lines
\* 253-255 like any other exception of the try block
Resume(k, raised) ==
    /\ tasks[k].pc \in {"await_boot", "await_loop"}
    /\ raised => (tasks[k].pc = "await_loop" /\ tasks[k].todo # <<>>)
    /\ UNCHANGED <<PAYMENT_LABEL_ID, npush, http, request>>
    /\ IF tasks[k].pc = "await_boot"
       THEN /\ tasks' = [tasks EXCEPT ![k].pc = "done"]
            /\ UNCHANGED <<last_history_id, processed_messages, emitted, evicted>>
       ELSE IF raised
       THEN /\ last_history_id' = CursorOnError(tasks[k].history_id, last_history_id)
            /\ tasks' = [tasks EXCEPT ![k].pc = "done", ![k].todo = <<>>,
                                      ![k].history_records = <<>>,
                                      ![k].call = "loop_raised"]
            /\ UNCHANGED <<processed_messages, emitted, evicted>>
       ELSE /\ UNCHANGED last_history_id
            /\ RunLoop(k, tasks[k].history_records, tasks[k].todo, tasks[k].call)

(***************************************************************************)
(* Inputs of the table tools.                                              *)
(***************************************************************************)
BaseRows ==
    { MkRow(Cof, 1, Food, created_at, SerialCell(45966), NoText),
      MkRow(Cof, AmountCap, Shopping, created_at, TextCell("11/06/2025"), NoText),
      MkRow(CofS, 1, Food, created_at, SerialCell(45967), NoText),
      MkRow(Tea, 1, Snack, created_at, SerialCell(45967), <<110>>) }

\* "cof", "Cofe", "S", "x"
QueryNames == { <<99, 111, 102>>, <<67, 111, 102, 101>>, <<83>>, <<120>> }

DefaultCutoff == <<6, 10>>

LongText(n) == [i \in 1..n |-> 97]

\* " food ", ""
CategoryFilters == { <<32, 102, 111, 111, 100, 32>>, NoText }

DeleteDateFilters == {"", "11/5/2025", "13/45/2025"}

UpdateDateFilters == {"", "11/05/2025", "11/5/2025"}

vars == <<table, op, args, pre, out, ncalls, inflight, PAYMENT_LABEL_ID, last_history_id,
          processed_messages, tasks, emitted, evicted, npush, http,
          request>>

tableVars == <<table, op, args, pre, out, ncalls, inflight>>

trackerVars == <<PAYMENT_LABEL_ID, last_history_id, processed_messages, tasks,
                 emitted, evicted, npush, http, request>>

TrackerIdle ==
    /\ PAYMENT_LABEL_ID = TRUE
    /\ last_history_id = None
    /\ processed_messages = {}
    /\ tasks = [k \in 1..MaxNotifs |-> IdleTask]
    /\ emitted = <<>>
    /\ evicted = FALSE
    /\ npush = 0
    /\ http = 0
    /\ request = NoRequest

\* the delete invocations that may be under way at once, each in a process
\* of its own against the one sheet
Invocations == 1..2

\* an invocation not yet made
IdleInvocation ==
    [pc |-> "idle", args |-> <<>>, records |-> <<>>, todo |-> <<>>,
     status |-> "none"]

TableIdle ==
    /\ op = "none"
    /\ args = <<>>
    /\ pre = <<>>
    /\ out = <<>>
    /\ ncalls = 0
    /\ inflight = [p \in Invocations |-> IdleInvocation]

Init ==
    /\ table \in UNION { [1..n -> BaseRows] : n \in 0..MaxRows }
    /\ TableIdle
    /\ TrackerIdle

Call(name, a, returned) ==
    /\ ncalls < MaxCalls
    /\ \E result \in {returned} :
          /\ table' = result.table
          /\ out' = result
    /\ ncalls' = ncalls + 1
    /\ op' = name
    /\ args' = a
    /\ pre' = table
    /\ UNCHANGED <<inflight, trackerVars>>

Delete(fail) ==
    \E name \in QueryNames, date_str \in DeleteDateFilters, category \in CategoryFilters,
       delete_all_matches \in BOOLEAN :
        Call("delete",
               [name |-> name, date_str |-> date_str, category |-> category,
                delete_all_matches |-> delete_all_matches, fail |-> fail],
               delete_transaction_tool(table, name, date_str, category,
                                       DefaultCutoff, delete_all_matches, fail))

\* the (field, new_value) pairs of an update: "amount", "CATEGORY", "name",
\* "Notes", "date", "created" and a field that does not exist, "Bogus"
UpdateValues ==
    ( { <<97, 109, 111, 117, 110, 116>> }
        \X {"5", "100000000", "nan", "0", "-3", "100000001", "abc"} )
    \cup
    ( { <<67, 65, 84, 69, 71, 79, 82, 89>> }
        \X { Snack, <<32, 70, 111, 111, 100, 32>>, Shopping, <<102, 111, 111, 100>> } )
    \cup
    ( { <<110, 97, 109, 101>> }
        \X { <<32, 84, 101, 97, 59>>, <<60, 59, 62>>, LongText(MaxNameLen + 1) } )
    \cup
    ( { <<78, 111, 116, 101, 115>> } \X { <<110, 59>>, LongText(MaxNotesLen + 1) } )
    \cup
    ( { <<100, 97, 116, 101>> } \X {"11/5/2025", "01/01/2019", "13/45/2025"} )
    \cup
    ( { <<99, 114, 101, 97, 116, 101, 100>>, <<66, 111, 103, 117, 115>> } \X {"x"} )

Update(fail) ==
    \E name \in QueryNames \cup {NoText}, fv \in UpdateValues,
       date_str \in UpdateDateFilters :
        Call("update",
             [name |-> name, field |-> fv[1], new_value |-> fv[2],
              date_str |-> date_str, fail |-> fail],
             update_transaction_tool(table, name, fv[1], fv[2], date_str,
                                     DefaultCutoff, fail))

AddArgs(name, amount, category, date_str, notes) ==
    [name |-> name, amount |-> amount, category |-> category,
     date_str |-> date_str, notes |-> notes]

ValidAdds ==
    { AddArgs(Cof, 1, Food, "11/05/2025", NoText),
      AddArgs(<<32, 84, 101, 97, 59>>, AmountCap, <<32, 70, 111, 111, 100, 32>>, "",
              <<110, 59>>),
      AddArgs(CofS, 5, Shopping, "11/5/2025", NoText) }

InvalidAdds ==
    { AddArgs(NoText, 1, Food, "", NoText),
      AddArgs(LongText(MaxNameLen + 1), 1, Food, "", NoText),
      AddArgs(<<60, 59, 62>>, 1, Food, "", NoText),
      AddArgs(Cof, 0, Food, "", NoText),
      AddArgs(Cof, -3, Food, "", NoText),
      AddArgs(Cof, AmountCap + 1, Food, "", NoText),
      AddArgs(Cof, 1, <<102, 111, 111, 100>>, "", NoText),
      AddArgs(Cof, 1, Food, "13/45/2025", NoText),
      AddArgs(Cof, 1, Food, "01/01/2019", NoText),
      AddArgs(Cof, 1, Food, "", LongText(MaxNotesLen + 1)) }

AddOne(fail) ==
    \E a \in ValidAdds \cup InvalidAdds :
        Call("add_one", a @@ [fail |-> fail],
             add_transaction_tool(table, a.name, a.amount, a.category, a.date_str,
                                  a.notes, fail))

\* the last two: an unknown category with "notes": null, and "notes": null
\* on an item with nothing else wrong
BatchItems ==
    { AddArgs(Cof, 1, Food, "11/05/2025", NoText),
      AddArgs(<<32, 84, 101, 97, 59>>, AmountCap, Snack, "", <<110, 59>>),
      AddArgs(Cof, 1, <<102, 111, 111, 100>>, "", NoText),
      AddArgs(Tea, 0, Food, "", JsonNull),
      AddArgs(Tea, 1, Food, "", JsonNull) }

\* every batch of up to two items, one of three valid items around an
\* invalid one, a full batch and a batch of one item too many
Batches ==
    UNION { [1..n -> BatchItems] : n \in 0..2 }
    \cup { << AddArgs(Cof, 1, Food, "11/05/2025", NoText),
              AddArgs(Cof, 1, <<102, 111, 111, 100>>, "", NoText),
              AddArgs(<<32, 84, 101, 97, 59>>, AmountCap, Snack, "", <<110, 59>>),
              AddArgs(CofS, 5, Shopping, "11/5/2025", NoText) >> }
    \cup { [i \in 1..MaxBatch |-> AddArgs(Cof, 1, Food, "", NoText)] }
    \cup { [i \in 1..(MaxBatch + 1) |-> AddArgs(Cof, 1, Food, "", NoText)] }

AddMany(fail) ==
    \/ \E b \in Batches :
          Call("add_many", [json |-> "list", transactions |-> b, fail |-> fail],
               add_transactions_tool(table, "list", b, fail))
    \/ \E j \in {"malformed", "not_list"} :
          Call("add_many", [json |-> j, transactions |-> <<>>, fail |-> fail],
               add_transactions_tool(table, j, <<>>, fail))

\* the tools with a store that answers every call
Next == AddOne(0) \/ AddMany(0) \/ Update(0) \/ Delete(0)

Spec == Init /\ [][Next]_vars

\* the tools with a store whose calls may raise: `fail` numbers the call
FaultyAdd == \E fail \in 0..1 : AddOne(fail) \/ AddMany(fail)

FaultyUpdate == \E fail \in 0..(MaxRows + 1) : Update(fail)

FaultyDelete == \E fail \in 0..(MaxRows + 1) : Delete(fail)

NextFault == FaultyAdd \/ FaultyUpdate \/ FaultyDelete

SpecFault == Init /\ [][NextFault]_vars

(***************************************************************************)
(* The read-only tools, on sheets that may hold a row whose date the       *)
(* parse rejects.                                                          *)
(***************************************************************************)
\* "Cof" 11/05/2025, "Cof S" today (category " FOOD"), "Tea" as text
\* 11/06/2025, and "Tea" with a date cell that reads as no date
QueryRows ==
    { MkRow(Cof, 5, Food, created_at, SerialCell(45966), NoText),
      MkRow(CofS, 7, <<32, 70, 79, 79, 68>>, created_at, SerialCell(Today), NoText),
      MkRow(Tea, 1, Snack, created_at, TextCell("11/06/2025"), NoText),
      MkRow(Tea, 3, Food, created_at, TextCell("13/45/2025"), NoText) }

InitQuery ==
    /\ table \in UNION { [1..n -> QueryRows] : n \in 0..MaxRows }
    /\ TableIdle
    /\ TrackerIdle

\* "", "cof", "Cofe,x", "tea, S"
FindNames ==
    { NoText, <<99, 111, 102>>, <<67, 111, 102, 101, 44, 120>>,
      <<116, 101, 97, 44, 32, 83>> }

\* no day, a day, a date that is none, a day before 2020
FindDates == {"", "11/05/2025", "13/45/2025", "01/01/2019"}

\* no range, one day as a range, a range with a bad end
DateRanges == { <<"", "">>, <<"11/05/2025", "11/05/2025">>, <<"11/05/2025", "13/45/2025">> }

DayCounts == {"", "0", "1", "abc"}

Find(fail) ==
    \E name \in FindNames, category \in CategoryFilters, date \in FindDates,
       range \in DateRanges, days_ago \in DayCounts :
        Call("find",
             [name |-> name, category |-> category, date |-> date,
              start_date |-> range[1], end_date |-> range[2],
              days_ago |-> days_ago, fail |-> fail],
             check_data_exists_tool(table, name, category, date, range[1],
                                    range[2], days_ago, DefaultCutoff, fail))

\* "sum", "count", "average", " SUM " and "median"
Metrics ==
    { MetricSum, MetricCount, MetricAverage, <<32, 83, 85, 77, 32>>,
      <<109, 101, 100, 105, 97, 110>> }

\* "", "cof", "TEA "
AnalyzeNames == { NoText, <<99, 111, 102>>, <<84, 69, 65, 32>> }

Analyze(fail) ==
    \E metric \in Metrics, category \in CategoryFilters, name \in AnalyzeNames,
       range \in DateRanges, days \in DayCounts :
        Call("analyze",
             [metric |-> metric, category |-> category, name |-> name,
              start_date |-> range[1], end_date |-> range[2], days |-> days,
              fail |-> fail],
             analyze_expenses_tool(table, metric, category, name, range[1],
                                   range[2], days, fail))

FaultyFind == \E fail \in 0..1 : Find(fail)

FaultyAnalyze == \E fail \in 0..1 : Analyze(fail)

NextQuery == FaultyFind \/ FaultyAnalyze

SpecQuery == InitQuery /\ [][NextQuery]_vars

\* the three tools that match names, on sheets long enough for the cut to
\* the five closest names to bite and for a delete to meet several runs of
\* rows: rows named "Cofe" (Food) and "Cof" (Snack)
MatchRowKinds ==
    { MkRow(<<67, 111, 102, 101>>, 1, Food, created_at, SerialCell(45966), NoText),
      MkRow(Cof, 1, Snack, created_at, SerialCell(45966), NoText) }

InitMatch ==
    /\ table \in UNION { [1..n -> MatchRowKinds] : n \in 0..MatchRows }
    /\ TableIdle
    /\ TrackerIdle

NextMatch == Delete(0) \/ Update(0) \/ Find(0)

SpecMatch == InitMatch /\ [][NextMatch]_vars

(***************************************************************************)
(* Two delete invocations against one sheet.  The tool holds no lock: its  *)
(* read (line 41) and each of its delete_rows calls (line 144) are         *)
(* requests of their own to the sheet, and the requests of another         *)
(* invocation may be served between them.                                  *)
(***************************************************************************)
\* rows named "Cof", "Tea" and "Bun"
RaceRows ==
    { MkRow(Cof, 1, Food, created_at, SerialCell(45966), NoText),
      MkRow(Tea, 1, Snack, created_at, SerialCell(45966), NoText),
      MkRow(<<66, 117, 110>>, 1, Food, created_at, SerialCell(45966), NoText) }

\* "cof", "tea"
RaceNames == { <<99, 111, 102>>, <<116, 101, 97>> }

InitRace ==
    /\ table \in UNION { [1..n -> RaceRows] : n \in 0..MaxRows }
    /\ TableIdle
    /\ TrackerIdle

\* lines 38-141: invocation p reads the sheet and works out its ranges from
\* what it read; it returns at once unless it has ranges to delete
DeleteRead(p, name, delete_all_matches) ==
    /\ inflight[p].pc = "idle"
    /\ \E r \in { delete_transaction_tool(table, name, "", NoText, DefaultCutoff,
                                          delete_all_matches, 0) } :
          inflight' = [inflight EXCEPT ![p] =
              [pc |-> IF r.status = "success" THEN "deleting" ELSE "done",
               args |-> [name |-> name, date_str |-> "", category |-> NoText,
                         delete_all_matches |-> delete_all_matches],
               records |-> get_all_records(table),
               todo |-> IF r.status = "success" THEN Tail(r.calls) ELSE <<>>,
               status |-> IF r.status = "success" THEN "none" ELSE r.status]]
    /\ UNCHANGED <<table, op, args, pre, out, ncalls, trackerVars>>

\* lines 143-151: the next delete_rows call of invocation p, with the row
\* numbers it worked out from what it read, on the sheet as it is now
DeleteRange(p) ==
    /\ inflight[p].pc = "deleting"
    /\ table' = delete_rows(table, Head(inflight[p].todo)[2], Head(inflight[p].todo)[3])
    /\ inflight' = [inflight EXCEPT
          ![p].todo = Tail(@),
          ![p].pc = IF Tail(inflight[p].todo) = <<>> THEN "done" ELSE "deleting",
          ![p].status = IF Tail(inflight[p].todo) = <<>> THEN "success" ELSE "none"]
    /\ UNCHANGED <<op, args, pre, out, ncalls, trackerVars>>

RaceRead ==
    \E p \in Invocations, name \in RaceNames, delete_all_matches \in BOOLEAN :
        DeleteRead(p, name, delete_all_matches)

RaceDelete == \E p \in Invocations : DeleteRange(p)

NextRace == RaceRead \/ RaceDelete

SpecRace == InitRace /\ [][NextRace]_vars

\* the change tracker alone
InitTracker ==
    /\ table = <<>>
    /\ TableIdle
    /\ PAYMENT_LABEL_ID \in BOOLEAN
    /\ last_history_id = None
    /\ processed_messages = {}
    /\ tasks = [k \in 1..MaxNotifs |-> IdleTask]
    /\ emitted = <<>>
    /\ evicted = FALSE
    /\ npush = 0
    /\ http = 0
    /\ request = NoRequest

Push ==
    /\ \E c \in Cursors, token_ok \in BOOLEAN, decodable \in BOOLEAN :
          pubsub_push(c, token_ok, decodable)
    /\ UNCHANGED tableVars

\* a scheduled task starts; the mailbox answers the one call its path makes
Start ==
    /\ \E k \in 1..MaxNotifs :
          IF last_history_id = None
          THEN \E boot \in (-1)..MaxMsg : process_notification(k, boot, TRUE, <<>>)
          ELSE \/ process_notification(k, 0, FALSE, <<>>)
               \/ \E answer \in HistoryAnswers :
                     process_notification(k, 0, TRUE, answer)
    /\ UNCHANGED tableVars

Continue ==
    /\ \E k \in 1..MaxNotifs, raised \in BOOLEAN : Resume(k, raised)
    /\ UNCHANGED tableVars

NextTracker == Push \/ Start \/ Continue

SpecTracker == InitTracker /\ [][NextTracker]_vars

(***************************************************************************)
(* Properties of the delete tool.                                          *)
(***************************************************************************)
\* the sheet rows of t a delete with arguments a is about: the name is in
\* the matched set and the date and category filters, when given, hold
Qualifying(t, a) ==
    { r \in 2..(Len(t) + 1) :
        DeleteRowPasses(t[r - 1],
                        DeleteMatchedNames(t, a.name, DefaultCutoff),
                        a.date_str, a.category) }

RangeDeletes(calls) == { i \in 1..Len(calls) : calls[i][1] = "delete_rows" }

\* t without the sheet rows in Q, the others in their order
Without(t, Q) ==
    RowsOf(SelectSeq([i \in 1..Len(t) |-> <<i + 1, t[i]>>], LAMBDA p : p[1] \notin Q))

\* the rows of t at the sheet rows in Q, in row order, as delete reports them
Reported(t, Q) ==
    LET rows == RowsOf(SelectSeq([i \in 1..Len(t) |-> <<i + 1, t[i]>>],
                                 LAMBDA p : p[1] \in Q))
    IN  [i \in 1..Len(rows) |->
            [name |-> rows[i].Name, amount |-> rows[i].Amount,
             category |-> rows[i].Category, date |-> rows[i].Date,
             notes |-> rows[i].Notes]]

\* C1: a delete without the bulk flag for which more than one row qualifies
\* returns multiple_matches with deleted_count 0, issues no range-delete call
\* and leaves the table as it was.
C1_SafetyGate ==
    (op = "delete" /\ ~args.delete_all_matches
        /\ Cardinality(Qualifying(pre, args)) > 1)
    => /\ out.status = "multiple_matches"
       /\ out.deleted_count = 0
       /\ out.matches_found = Cardinality(Qualifying(pre, args))
       /\ RangeDeletes(out.calls) = {}
       /\ table = pre

C1_Witness ==
    /\ op = "delete" /\ ~args.delete_all_matches
    /\ Cardinality(Qualifying(pre, args)) = 3
    /\ args.date_str = ""
    /\ out.status = "multiple_matches"

\* C4: a delete that proceeds leaves the table it read without exactly the
\* qualifying rows, the others in their order; deleted_count is the number
\* of rows removed and deleted_items are those rows as they were.
C4_DeleteExact ==
    (op = "delete" /\ out.status = "success")
    => /\ table = Without(pre, Qualifying(pre, args))
       /\ out.deleted_count = Cardinality(Qualifying(pre, args))
       /\ out.deleted_count = Len(pre) - Len(table)
       /\ out.deleted_items = Reported(pre, Qualifying(pre, args))

\* rows 2 and 4 go, row 3 stays: two runs
C4_Witness ==
    /\ op = "delete" /\ out.status = "success"
    /\ Qualifying(pre, args) = {2, 4}
    /\ Len(table) = 1

\* C5: a delete succeeds exactly when one row qualifies, or two or more
\* qualify and the bulk flag is set; it then removes all qualifying rows.
C5_DeleteOutcome ==
    op = "delete" =>
       LET n == Cardinality(Qualifying(pre, args))
       IN  /\ out.status = "success"
                <=> (n = 1 \/ (n >= 2 /\ args.delete_all_matches))
           /\ out.status = "success" => Len(table) = Len(pre) - n
           /\ out.status # "success" => table = pre

C5_Witness ==
    /\ op = "delete" /\ ~args.delete_all_matches
    /\ Cardinality(Qualifying(pre, args)) = 1
    /\ Len(pre) = 3
    /\ out.status = "success"

(***************************************************************************)
(* Properties of the update tool.                                          *)
(***************************************************************************)
ColumnOf(field) == ColName[FieldIndex(Capitalize(field))]

\* the sheet rows an update with arguments a is about: the name is in the
\* matched set and, with a date filter, the row's calendar day is the
\* filter's
UpdateQualifying(t, a) ==
    { r \in 2..(Len(t) + 1) :
        /\ Strip(t[r - 1].Name) \in UpdateMatchedNames(t, a.name, DefaultCutoff)
        /\ \/ a.date_str = ""
           \/ /\ parse_date_mmddyyyy(a.date_str) # BadDate
              /\ to_datetime(t[r - 1].Date) = parse_date_mmddyyyy(a.date_str) }

CellWrites(calls) == { i \in 1..Len(calls) : calls[i][1] = "update_cell" }

\* every cell of row r of t but the one in column c
Others(row, c) == [f \in DOMAIN row \ {c} |-> row[f]]

\* C6: a delete or update with valid inputs for which no row qualifies
\* returns not_found, not error, and writes nothing.
C6_NotFound ==
    /\ (op = "delete" /\ args.date_str \in {"", "11/5/2025"}
            /\ Qualifying(pre, args) = {})
       => /\ out.status = "not_found"
          /\ RangeDeletes(out.calls) = {}
          /\ table = pre
    /\ (op = "update" /\ out.msg \notin {"invalid_field", "invalid_value", "invalid_name"}
            /\ UpdateQualifying(pre, args) = {})
       => /\ out.status = "not_found"
          /\ CellWrites(out.calls) = {}
          /\ table = pre

\* C7: a successful update sets the target column to the new value on
\* exactly the qualifying rows, two or more included, and changes no other
\* cell, nor the number or the order of the rows.
C7_UpdateExact ==
    (op = "update" /\ out.status = "success")
    => LET Q == UpdateQualifying(pre, args)
           c == ColumnOf(args.field)
           v == UpdateValidate(Capitalize(args.field), args.new_value).cell
       IN  /\ Q # {}
           /\ out.updated_rows = Cardinality(Q)
           /\ Len(table) = Len(pre)
           /\ \A r \in 2..(Len(pre) + 1) :
                 /\ Others(table[r - 1], c) = Others(pre[r - 1], c)
                 /\ table[r - 1][c] = IF r \in Q THEN v ELSE pre[r - 1][c]

\* two rows updated past a row that is left alone, under a date filter
C7_Witness ==
    /\ op = "update" /\ out.status = "success"
    /\ args.date_str = "11/05/2025"
    /\ UpdateQualifying(pre, args) = {2, 4}
    /\ table # pre

\* C8: an update that modifies rows issues one write call for all of them,
\* so that after a failed write all or none of the rows carry the new value.
C8_OneBatch ==
    (op = "update" /\ CellWrites(out.calls) # {})
    => /\ Cardinality(CellWrites(out.calls)) = 1
       /\ \/ table = pre
          \/ \A r \in UpdateQualifying(pre, args) :
                table[r - 1][ColumnOf(args.field)]
                   = UpdateValidate(Capitalize(args.field), args.new_value).cell

\* the ExpenseRecord invariants of one stored row
RecordOK(row) ==
    /\ row.Amount # NaN /\ row.Amount > 0 /\ row.Amount <= AmountCap
    /\ row.Category \in VALID_CATEGORIES
    /\ to_datetime(row.Date) # BadDate /\ YearInRange(to_datetime(row.Date))
    /\ row.Name # <<>>

\* C9: every stored row keeps 0 < amount <= 100,000,000, an enumerated
\* category, a date in 2020..2030 and a non-empty name, whatever add, update
\* and delete calls are made.
C9_RecordInvariants == \A i \in 1..Len(table) : RecordOK(table[i])

\* C10: an update of Category accepts a new value exactly when add_one
\* accepts it as a category: when it is one of the nine enumerated names.
C10_CategoryRule ==
    (op = "update" /\ Capitalize(args.field) = valid_fields[3] /\ args.name # <<>>)
    => (out.msg # "invalid_value" <=> Strip(args.new_value) \in VALID_CATEGORIES)

(***************************************************************************)
(* Properties of the add tools.                                            *)
(***************************************************************************)
\* the ExpenseRecord rules on the arguments of one insertion
FieldsValid(a) ==
    /\ a.name # <<>> /\ Len(a.name) <= MaxNameLen /\ Sanitize(a.name) # <<>>
    /\ a.amount > 0 /\ a.amount <= AmountCap
    /\ Strip(a.category) \in VALID_CATEGORIES
    /\ \/ a.date_str = ""
       \/ /\ parse_date_mmddyyyy(a.date_str) # BadDate
          /\ YearInRange(parse_date_mmddyyyy(a.date_str))
    /\ a.notes = JsonNull \/ Len(a.notes) <= MaxNotesLen

\* the row an accepted insertion stores; notes are optional
StoredRow(a) ==
    MkRow(Sanitize(a.name), a.amount, Strip(a.category), created_at,
          SerialCell(IF a.date_str = "" THEN Today
                     ELSE parse_date_mmddyyyy(a.date_str)),
          IF a.notes = JsonNull THEN NoText ELSE Sanitize(a.notes))

\* the positions (from 1) of the items of a batch that pass, or fail, the rules
ValidItems(b) == SelectSeq([i \in 1..Len(b) |-> i], LAMBDA i : FieldsValid(b[i]))

InvalidItems(b) == SelectSeq([i \in 1..Len(b) |-> i], LAMBDA i : ~FieldsValid(b[i]))

\* C11: add_one returns success exactly when every field passes the rules,
\* the amount rule being 0 < amount <= 100,000,000; on success the table is
\* the old one with the one new row at its end, on error it is unchanged.
C11_AddOne ==
    op = "add_one"
    => /\ out.status \in {"success", "error"}
       /\ out.status = "success" <=> FieldsValid(args)
       /\ out.status = "success" => table = Append(pre, StoredRow(args))
       /\ out.status = "error" => table = pre /\ out.calls = <<>>
       /\ args.amount \in {0, AmountCap + 1} => out.status = "error"

\* the cap itself is accepted
C11_Witness ==
    /\ op = "add_one" /\ args.amount = AmountCap
    /\ out.status = "success"
    /\ Len(table) = Len(pre) + 1 /\ table[Len(table)].Amount = AmountCap

\* C12: a batch of 1 to 50 items with at least one valid item adds exactly
\* the valid items, in input order, in one append call; added_count and
\* error_count add up to the number of items and the error list has one
\* entry per invalid item, carrying that item's position (from 0).
C12_BatchIndependent ==
    (/\ op = "add_many" /\ args.json = "list"
     /\ Len(args.transactions) \in 1..MaxBatch
     /\ ValidItems(args.transactions) # <<>>)
    => LET b == args.transactions
           valid == ValidItems(b)
           invalid == InvalidItems(b)
       IN  /\ out.status = "success"
           /\ table = pre \o [k \in 1..Len(valid) |-> StoredRow(b[valid[k]])]
           /\ out.calls = << <<"append_rows", Len(valid)>> >>
           /\ out.added_count = Len(valid)
           /\ out.added_count + out.error_count = Len(b)
           /\ Len(out.errors) = Len(invalid)
           /\ \A k \in 1..Len(invalid) : out.errors[k].index = invalid[k] - 1

CountKeys == {"added_count", "error_count", "errors"}

\* what every rejected batch has in common: status error, nothing appended,
\* no store call
Rejected == out.status = "error" /\ table = pre /\ out.calls = <<>>

AllInvalid(b) == Len(b) \in 1..MaxBatch /\ ValidItems(b) = <<>>

C14_NoEscape ==
    (op # "none" /\ args.fail # 0 /\ out.msg # "type_error")
    => /\ ~out.raised
       /\ out.msg # "raw"
       /\ Len(out.calls) >= args.fail => out.status = "error"

(***************************************************************************)
(* Properties of analyze and find.                                         *)
(***************************************************************************)
Supported(metric) == Strip(Lower(metric)) \in {MetricSum, MetricCount, MetricAverage}

GoodDate(s) == parse_date_mmddyyyy(s) # BadDate /\ YearInRange(parse_date_mmddyyyy(s))

\* a date text that is given and is no MM/DD/YYYY date of 2020..2030
BadDateText(s) == s # "" /\ ~GoodDate(s)

\* at most one of last-N-days and start/end is given, and what is given reads
OneSelector(days, start_date, end_date) ==
    \/ days = "" /\ start_date = "" /\ end_date = ""
    \/ days # "" /\ int(days) # NotInt /\ start_date = "" /\ end_date = ""
    \/ days = "" /\ GoodDate(start_date) /\ GoodDate(end_date)

\* is day d selected?
DaySelected(d, days, start_date, end_date) ==
    IF days # "" THEN d >= Today - int(days) /\ d <= Today
    ELSE IF start_date # ""
    THEN d >= parse_date_mmddyyyy(start_date) /\ d <= parse_date_mmddyyyy(end_date)
    ELSE TRUE

CategoryIs(row, category) ==
    Strip(category) = <<>> \/ Lower(Strip(row.Category)) = Lower(Strip(category))

\* the rows of t that survive the filters of an analyze call with arguments a
AnalyzeSurvivors(t, a) ==
    SelectSeq(t, LAMBDA r :
        /\ to_datetime(r.Date) # BadDate
        /\ DaySelected(to_datetime(r.Date), a.days, a.start_date, a.end_date)
        /\ CategoryIs(r, a.category)
        /\ Strip(a.name) = <<>> \/ Contains(Lower(r.Name), Lower(Strip(a.name))))

\* the amounts of rows 1..n of S, added up
RECURSIVE AmountTotal(_, _)
AmountTotal(S, n) == IF n = 0 THEN 0 ELSE AmountTotal(S, n - 1) + S[n].Amount

\* C15: whatever the table holds, a supported metric over no surviving row
\* gives exists = false and value = 0, and nothing is raised.
C15_ZeroRows ==
    (/\ op = "analyze" /\ args.fail = 0 /\ Supported(args.metric)
     /\ OneSelector(args.days, args.start_date, args.end_date)
     /\ AnalyzeSurvivors(pre, args) = <<>>)
    => /\ ~out.raised
       /\ ~out.exists
       /\ out.value = <<0, 1>>
       /\ out.details = <<>>

Alternatives(name) ==
    SelectSeq([i \in 1..Len(Split(name, <<>>)) |-> Strip(Split(name, <<>>)[i])],
              LAMBDA n : n # <<>>)

\* a name matches an alternative when it is close enough to it or holds it
NameMatches(n, alt) ==
    FracGE(ratio(n, alt), DefaultCutoff) \/ Contains(Lower(n), Lower(alt))

\* at most one of days_ago, date and start/end is given, and it reads
OneFindSelector(a) ==
    \/ a.date = "" /\ OneSelector(a.days_ago, a.start_date, a.end_date)
    \/ GoodDate(a.date) /\ a.days_ago = "" /\ a.start_date = "" /\ a.end_date = ""

\* the rows of t a find with arguments a is to return
FindSurvivors(t, a) ==
    SelectSeq(t, LAMBDA r :
        /\ to_datetime(r.Date) # BadDate
        /\ IF a.date # "" THEN to_datetime(r.Date) = parse_date_mmddyyyy(a.date)
           ELSE DaySelected(to_datetime(r.Date), a.days_ago, a.start_date, a.end_date)
        /\ CategoryIs(r, a.category)
        /\ \/ Alternatives(a.name) = <<>>
           \/ \E k \in 1..Len(Alternatives(a.name)) :
                 NameMatches(Strip(r.Name), Alternatives(a.name)[k]))

\* C17: find returns exactly the rows with a parseable date that satisfy the
\* date selector, the category and one of the name alternatives, each where
\* given; match_count is their number, exists says that there is one, and
\* matches are their distinct names in ascending order.
C17_FindConjunction ==
    (op = "find" /\ args.fail = 0 /\ OneFindSelector(args))
    => LET S == FindSurvivors(pre, args)
       IN  /\ ~out.raised
           /\ out.details = [i \in 1..Len(S) |->
                               [S[i] EXCEPT !.Date = strftime(to_datetime(S[i].Date))]]
           /\ out.match_count = Len(S)
           /\ out.exists <=> out.match_count > 0
           /\ { out.matches[i] : i \in 1..Len(out.matches) }
                 = { Strip(S[i].Name) : i \in 1..Len(S) }
           /\ \A i \in 1..(Len(out.matches) - 1) :
                 StrLess(out.matches[i], out.matches[i + 1])

\* two alternatives, a category and a day count over a sheet with a row that
\* has no date: two rows of two names come back
C17_Witness ==
    /\ op = "find" /\ Len(Alternatives(args.name)) = 2
    /\ args.category # NoText /\ args.days_ago = "1" /\ args.date = ""
    /\ args.start_date = ""
    /\ \E i \in 1..Len(pre) : to_datetime(pre[i].Date) = BadDate
    /\ out.match_count = 2 /\ Len(out.matches) = 2 /\ Len(pre) = 3

\* C18: with a last-N-days value and a start/end range both given, analyze
\* and find select the rows the last-N-days value selects alone, and both
\* select the same rows.
C18_DaysPrecedence ==
    /\ (/\ op = "analyze" /\ args.fail = 0 /\ Supported(args.metric)
        /\ args.days # "" /\ int(args.days) # NotInt
        /\ GoodDate(args.start_date) /\ GoodDate(args.end_date))
       => /\ out.details
               = analyze_expenses_tool(pre, args.metric, args.category, args.name,
                                       "", "", args.days, 0).details
          /\ (args.category = NoText /\ args.name = NoText)
               => out.details
                    = check_data_exists_tool(pre, NoText, NoText, "", args.start_date,
                          args.end_date, args.days, DefaultCutoff, 0).details
    /\ (/\ op = "find" /\ args.fail = 0
        /\ args.days_ago # "" /\ int(args.days_ago) # NotInt
        /\ GoodDate(args.start_date) /\ GoodDate(args.end_date))
       => out.details
            = check_data_exists_tool(pre, args.name, args.category, args.date, "",
                  "", args.days_ago, DefaultCutoff, 0).details

\* C19: a date filter, or a date value, that is no MM/DD/YYYY date of
\* 2020..2030 makes the call return status error; nothing is matched,
\* aggregated or changed.
C19_BadDatesRejected ==
    /\ (/\ op = "find" /\ args.fail = 0
        /\ (BadDateText(args.date) \/ BadDateText(args.start_date)
               \/ BadDateText(args.end_date)))
       => out.status = "error" /\ out.details = <<>>
    /\ (/\ op = "analyze" /\ args.fail = 0 /\ Supported(args.metric)
        /\ (BadDateText(args.start_date) \/ BadDateText(args.end_date)))
       => out.status = "error" /\ out.details = <<>>
    /\ (op = "delete" /\ BadDateText(args.date_str))
       => out.status = "error" /\ table = pre
    /\ (op = "update" /\ BadDateText(args.date_str))
       => out.status = "error" /\ table = pre
    /\ (op = "add_one" /\ BadDateText(args.date_str))
       => out.status = "error" /\ table = pre
    /\ (op = "update" /\ Capitalize(args.field) = valid_fields[5]
           /\ BadDateText(args.new_value))
       => out.status = "error" /\ table = pre

(***************************************************************************)
(* Properties of the change tracker.                                       *)
(***************************************************************************)
EmittedBy(K) == { i \in 1..Len(emitted) : emitted[i].task \in K }

NoRepeat(I) == \A i, j \in I : i # j => emitted[i].id # emitted[j].id

\* C2: while nothing has been evicted no message id is emitted twice,
\* whatever the interleaving of the tasks; and an id is emitted only in the
\* step that puts it into processed_messages, having found it absent.
C2_AtMostOnce ==
    /\ [](~evicted => NoRepeat(1..Len(emitted)))
    /\ [][emitted' # emitted =>
            /\ Len(emitted') = Len(emitted) + 1
            /\ SubSeq(emitted', 1, Len(emitted)) = emitted
            /\ emitted'[Len(emitted')].id \notin processed_messages
            /\ ~evicted' => emitted'[Len(emitted')].id \in processed_messages'
         ]_vars

\* two tasks have emitted, one of them while the other was waiting
C2_Witness ==
    /\ ~evicted
    /\ \E i, j \in 1..Len(emitted) : emitted[i].task # emitted[j].task
    /\ \E k \in 1..MaxNotifs : tasks[k].pc = "await_loop" /\ tasks[k].todo # <<>>
    /\ \E k \in 1..MaxNotifs : tasks[k].pc = "done" /\ tasks[k].call = "history"

\* C3: a notification whose cursor is not above the held one is dropped: it
\* emits nothing, calls neither the change log nor the mailbox and leaves
\* last_history_id and processed_messages alone; so of two deliveries of
\* one cursor no message is emitted twice.
C3_StaleDropped ==
    /\ [][\A k \in 1..MaxNotifs :
            (/\ tasks[k].pc = "scheduled" /\ tasks'[k].pc # "scheduled"
             /\ last_history_id # None
             /\ tasks[k].history_id <= last_history_id)
            => /\ tasks'[k].pc = "done" /\ tasks'[k].call = "none"
               /\ UNCHANGED <<last_history_id, processed_messages, emitted>>
         ]_vars
    /\ [](\A j, k \in 1..MaxNotifs :
            (j # k /\ tasks[j].history_id = tasks[k].history_id)
            => NoRepeat(EmittedBy({j, k})))

\* a cursor delivered twice: one task emitted, the other was dropped
C3_Witness ==
    \E j, k \in 1..MaxNotifs :
        /\ j # k /\ tasks[j].history_id = tasks[k].history_id
        /\ tasks[j].call = "history" /\ EmittedBy({j}) # {}
        /\ tasks[k].pc = "done" /\ tasks[k].call = "none"

EmittedSeq(k) ==
    LET mine == SelectSeq(emitted, LAMBDA e : e.task = k)
    IN  [i \in 1..Len(mine) |-> mine[i].id]

\* the ids of the entries of a history answer that carry the label
LabeledIds(entries) ==
    LET q == SelectSeq(entries, LAMBDA e : e.labeled)
    IN  [i \in 1..Len(q) |-> q[i].id]

\* the entries of its answer the loop of task k has visited
Visited(k) ==
    SubSeq(tasks[k].history_records, 1,
           Len(tasks[k].history_records) - Len(tasks[k].todo))

\* no other task has emitted a message of the answer task k holds
Fresh(k) ==
    \A i \in 1..Len(emitted), n \in 1..Len(tasks[k].history_records) :
        emitted[i].id = tasks[k].history_records[n].id => emitted[i].task = k

\* C21: a task on the history path whose entries nobody else has emitted
\* has emitted, whenever it waits, the ids of the labelled entries it has
\* visited, in their order, and no other; when it returns, no labelled
\* entry is left unvisited.  With or without a resolved label id.
C21_InOrder ==
    /\ [](\A k \in 1..MaxNotifs :
            (tasks[k].pc = "await_loop" /\ tasks[k].call = "history" /\ Fresh(k))
            => EmittedSeq(k) = LabeledIds(Visited(k)))
    /\ [][\A k \in 1..MaxNotifs :
            (/\ tasks[k].pc = "await_loop" /\ tasks[k].call = "history"
             /\ Fresh(k) /\ tasks'[k].pc = "done" /\ tasks'[k].call = "history")
            => /\ emitted' = emitted
               /\ LabeledIds(tasks[k].todo) = <<>>
         ]_vars

\* C22: a task whose cursor is above the held one leaves last_history_id at
\* its own cursor in the step that makes the history.list call, whether the
\* call returns or raises; when it raises the task is over, nothing is
\* emitted and processed_messages is as before.
C22_AdvanceOnFailure ==
    [][\A k \in 1..MaxNotifs :
         (/\ tasks[k].pc = "scheduled" /\ tasks'[k].pc # "scheduled"
          /\ last_history_id # None
          /\ tasks[k].history_id > last_history_id)
         => /\ last_history_id' = tasks[k].history_id
            /\ tasks'[k].call \in {"history", "history_failed"}
            /\ tasks'[k].call = "history_failed"
                 => /\ tasks'[k].pc = "done" /\ tasks'[k].todo = <<>>
                    /\ UNCHANGED <<processed_messages, emitted>>
      ]_vars

\* a call that raised, its cursor held, and a later task that was dropped
\* for carrying the same cursor: the window is not tried again
C22_Witness ==
    \E j, k \in 1..MaxNotifs :
        /\ tasks[k].call = "history_failed" /\ last_history_id = tasks[k].history_id
        /\ j > k /\ tasks[j].history_id = tasks[k].history_id
        /\ tasks[j].pc = "done" /\ tasks[j].call = "none"

\* C27: once last_history_id holds a cursor it never holds a smaller one.
C27_NeverBackwards ==
    [][last_history_id # None => last_history_id' >= last_history_id]_vars

C23_CacheBounded ==
    /\ [](Cardinality(processed_messages) <= CacheCap)
    /\ [][processed_messages' # processed_messages
            => \E id \in MsgIds \ processed_messages :
                  /\ processed_messages' \subseteq processed_messages \cup {id}
                  /\ Cardinality(processed_messages')
                       = IF Cardinality(processed_messages) + 1 > CacheCap
                         THEN Cardinality(processed_messages) + 1 - EvictCount
                         ELSE Cardinality(processed_messages) + 1
         ]_vars

\* the bootstrap lookup put the first id in, the loop the others, and the
\* insertion that went past the cap was cut back
C23_Witness ==
    /\ evicted
    /\ \E k \in 1..MaxNotifs : tasks[k].call = "list" /\ EmittedBy({k}) # {}
    /\ Len(emitted) > CacheCap
    /\ Cardinality(processed_messages) = CacheCap + 1 - EvictCount

\* C25: a push request with an accepted token is answered 204, decodable
\* or not, and at most schedules a task: the step of the request touches
\* neither the cursor nor processed_messages nor emits anything, and a task
\* starts only in a later step; a request with a wrong token is answered
\* 403 and schedules nothing.
C25_AckFirst ==
    [][/\ npush' # npush
          => /\ npush' = npush + 1
             /\ UNCHANGED <<last_history_id, processed_messages, emitted>>
             /\ \A k \in 1..MaxNotifs \ {npush'} : tasks'[k] = tasks[k]
             /\ request'.token_ok
                  => /\ http' = 204
                     /\ tasks'[npush'].pc
                          = IF request'.decodable THEN "scheduled" ELSE "unused"
             /\ ~request'.token_ok => (http' = 403 /\ tasks' = tasks)
       /\ \A k \in 1..MaxNotifs :
            (tasks[k].pc = "scheduled" /\ tasks'[k].pc # "scheduled")
            => (k <= npush /\ npush' = npush /\ http' = http)
      ]_vars

\* a request that could not be decoded was acknowledged; of the earlier
\* requests one scheduled nothing and the task of another has emitted
C25_Witness ==
    /\ http = 204 /\ request.token_ok /\ ~request.decodable
    /\ npush = MaxNotifs
    /\ \E k \in 1..MaxNotifs : tasks[k].pc = "await_boot"
    /\ \E k \in 1..MaxNotifs : k < npush /\ tasks[k].pc = "unused"

\* the delete_rows calls among calls, in the order they were made
RangeCalls(calls) == SelectSeq(calls, LAMBDA c : c[1] = "delete_rows")

\* C26: a delete that proceeds calls delete_rows once for every maximal run
\* of consecutive qualifying rows: the ranges cover exactly the qualifying
\* rows, and each starts more than one row above the end of the next, so
\* that they are disjoint, not adjacent, and in descending order.
C26_RangeGrouping ==
    (op = "delete" /\ out.status = "success")
    => LET D == RangeCalls(out.calls)
       IN  /\ Len(D) >= 1
           /\ \A i \in 1..Len(D) : D[i][2] <= D[i][3]
           /\ UNION { D[i][2]..D[i][3] : i \in 1..Len(D) } = Qualifying(pre, args)
           /\ \A i \in 1..(Len(D) - 1) : D[i][2] > D[i + 1][3] + 1

\* rows 2, 3, 4 and 7 of a sheet of six data rows: (7,7), then (2,4)
C26_Witness ==
    /\ op = "delete" /\ out.status = "success"
    /\ Qualifying(pre, args) = {2, 3, 4, 7}
    /\ RangeCalls(out.calls) = << <<"delete_rows", 7, 7>>, <<"delete_rows", 2, 4>> >>
    /\ Len(table) = 2

\* C30: a delete that returns status error with deleted_count 0 has removed
\* no row, whichever of its delete_rows calls failed.
C30_FailedDeleteRemovedNothing ==
    (op = "delete" /\ out.status = "error" /\ out.deleted_count = 0)
    => table = pre

\* the sheet rows invocation p has still to delete
Pending(p) ==
    UNION { (inflight[p].todo[i][2])..(inflight[p].todo[i][3]) :
            i \in 1..Len(inflight[p].todo) }

\* the sheet as invocation p takes it to be: what it read, without the
\* qualifying rows it has deleted so far
Expected(p) ==
    Without(inflight[p].records,
            Qualifying(inflight[p].records, inflight[p].args) \ Pending(p))

\* how many rows of t carry the name
CountNamed(t, name) == Cardinality({ i \in 1..Len(t) : t[i].Name = name })

\* C29: a delete_rows call removes the rows that stand, at the time of the
\* call, at the row numbers the invocation worked out from its read,
\* whatever they hold by then; they are the rows the invocation is about
\* only if the sheet is still as the invocation takes it to be, and nothing
\* keeps another invocation from changing the sheet in between.
C29_StaleIndexes ==
    [][\A p \in Invocations :
         (inflight[p].pc = "deleting" /\ inflight'[p].todo # inflight[p].todo)
         => /\ table' = Without(table, (Head(inflight[p].todo)[2])
                                          ..(Head(inflight[p].todo)[3]))
            /\ table = Expected(p) => table' = Expected(p)'
            /\ \A q \in Invocations \ {p} : inflight'[q] = inflight[q]
      ]_vars

\* both invocations have returned success, one for "cof" and one for "tea",
\* and a row named "Bun", which neither was about, is gone
C29_Witness ==
    /\ \A p \in Invocations : inflight[p].status = "success"
    /\ inflight[1].args.name # inflight[2].args.name
    /\ \A p \in Invocations :
          Qualifying(inflight[p].records, inflight[p].args)
             \subseteq { r \in 2..(Len(inflight[p].records) + 1) :
                           inflight[p].records[r - 1].Name # <<66, 117, 110>> }
    /\ \A p \in Invocations :
          CountNamed(table, <<66, 117, 110>>)
             < CountNamed(inflight[p].records, <<66, 117, 110>>)

(***************************************************************************)
(* Properties of name matching.                                            *)
(***************************************************************************)
\* the candidates that are strictly closer to word than candidate i
Closer(cands, i, word) ==
    { j \in 1..Len(cands) : FracGT(ratio(cands[j], word), ratio(cands[i], word)) }

\* the other candidates that are at least as close to word as candidate i
AsClose(cands, i, word) ==
    { j \in 1..Len(cands) \ {i} :
        FracGE(ratio(cands[j], word), ratio(cands[i], word)) }

\* M is the union of the two criteria over the candidates, for the query
\* words given: a candidate that holds a word, or is close enough to it
\* with fewer than n others at least as close, is in M; and whatever is in
\* M is a candidate that holds a word or is close enough to it with fewer
\* than n candidates closer
IsUnionOfCriteria(M, cands, words, n) ==
    /\ \A i \in 1..Len(cands) :
          (\E k \in 1..Len(words) :
              \/ Contains(Lower(cands[i]), Lower(Strip(words[k])))
              \/ /\ FracGE(ratio(cands[i], words[k]), DefaultCutoff)
                 /\ Cardinality(AsClose(cands, i, words[k])) < n)
          => cands[i] \in M
    /\ \A x \in M :
          \E i \in 1..Len(cands), k \in 1..Len(words) :
              /\ cands[i] = x
              /\ \/ Contains(Lower(x), Lower(Strip(words[k])))
                 \/ /\ FracGE(ratio(x, words[k]), DefaultCutoff)
                    /\ Cardinality(Closer(cands, i, words[k])) < n

\* the names of the rows of t, stripped
RowNames(t) == [i \in 1..Len(t) |-> Strip(t[i].Name)]

\* C24: the names update, delete and find match are the union of the
\* names among the closest (five for update and find, ten for delete) whose
\* ratio reaches the threshold and of all the names that hold the query;
\* find, given no other filter, reports exactly these names.
C24_NameUnion ==
    /\ (op = "delete" /\ args.fail = 0)
       => IsUnionOfCriteria(DeleteMatchedNames(pre, args.name, DefaultCutoff),
                            RowNames(pre), <<args.name>>, 10)
    /\ (op = "update" /\ args.fail = 0)
       => IsUnionOfCriteria(UpdateMatchedNames(pre, args.name, DefaultCutoff),
                            RowNames(pre), <<args.name>>, 5)
    /\ (/\ op = "find" /\ args.fail = 0 /\ args.category = NoText
        /\ args.date = "" /\ args.start_date = "" /\ args.days_ago = ""
        /\ Alternatives(args.name) # <<>>)
       => LET all_names == Unique(RowNames(ParsedRows(pre)), <<>>)
              M == FindMatchedNames(all_names, Alternatives(args.name),
                                    DefaultCutoff)
          IN  /\ IsUnionOfCriteria(M, all_names, Alternatives(args.name), 5)
              /\ { out.matches[i] : i \in 1..Len(out.matches) } = M

\* an update for "Cofe" on five rows of that name and one named "Cof": the
\* sixth name is close enough but not among the five closest, and does not
\* hold the query; its row is left alone
C24_Witness ==
    /\ op = "update" /\ args.fail = 0 /\ args.name = <<67, 111, 102, 101>>
    /\ Len(pre) = 6 /\ out.status = "success"
    /\ \E i \in 1..Len(pre) :
          /\ pre[i].Name = Cof /\ table[i] = pre[i]
          /\ FracGE(ratio(Cof, args.name), DefaultCutoff)
    /\ \E i \in 1..Len(pre) : table[i] # pre[i]

====
